---- MODULE Spec2Model ----
(***************************************************************************)
(* Model of the content studio screen FacebookContent.tsx: the credential  *)
(* cache, the platform selection, the generation pipeline (handleGenerate) *)
(* and the multi-platform publish orchestrator                             *)
(* (handleMultiPlatformPublish).                                           *)
(*                                                                         *)
(* The component is a React function component.  Its state variables are   *)
(* the useState cells.  An async handler runs atomically from one await to *)
(* the next, and reads the state cells through the closure of the render   *)
(* in which it was started: the values it sees are those of the moment of  *)
(* the click, whatever is set afterwards.  The state setters write to the  *)
(* live cells.                                                             *)
(***************************************************************************)
EXTENDS Integers, Sequences, FiniteSets, TLC

(* ------------------------------ bounds --------------------------------- *)

\* number of things the user does in a session: clicks on a platform card, on
\* the generate button and on the publish button, changes of user and platform
MaxEvents == 4

(* ----------------------------- constants ------------------------------- *)

\* ids of availablePlatforms
Targets == {"facebook", "facebook_ads", "instagram", "linkedin"}

\* keys of the credential map (cred.type)
CredTypes == {"facebook", "facebook_ads", "instagram", "linkedin"}

\* useAuth().currentUser: null or a signed-in user
NoUser == "null"
Users == {"u1"}

\* a credential that is not in the map (undefined)
NoCred == 0

\* what getCredentials can deliver: the records of the store, by type.
\* The credentials are written elsewhere, so two loads can differ.
CredentialStores ==
  { [t \in CredTypes |-> 1],
    [t \in CredTypes |-> IF t \in {"facebook", "linkedin"} THEN 2 ELSE NoCred],
    [t \in CredTypes |-> IF t \in {"facebook_ads", "instagram"} THEN 3 ELSE NoCred] }

\* useState<any>({})
EmptyCredentials == [t \in CredTypes |-> NoCred]

\* the text of the prompt box, as a sequence of characters
Prompts == { <<>>, <<" ">>, <<"p">>, <<" ", "p", " ">> }

\* useState('') of generatedContent and generatedImage; a generated text or
\* image is named by the number of the generation request that produced it
NoArtifact == 0

\* the image argument of an adapter that takes none
NoImageArg == -1

\* postId: undefined
NoPostId == ""

\* a status message that prints no count at that place
NoCount == -1

\* const results = {} and useState({}): a JavaScript object, whose keys keep
\* insertion order
EmptyResults == [map |-> <<>>, order |-> <<>>]

(* ------------------------------- state --------------------------------- *)

VARIABLES
  currentUser,        \* useAuth().currentUser
  storedCredentials,  \* useState: credential cache, type -> credential
  pendingLoads,       \* getCredentials calls of loadAllCredentials in flight
  selectedPlatforms,  \* useState: sequence of selected target ids
  generatedContent,   \* useState: generated text
  generatedImage,     \* useState: generated image url
  isGenerating,       \* useState
  isPublishing,       \* useState
  publishStatus,      \* useState: "idle" | "success" | "error"
  statusMessage,      \* useState
  publishResults,     \* useState: outcome object (keys in insertion order)
  gen,                \* the running handleGenerate: its await and its request
  genSeq,             \* generation requests started so far
  pub,                \* the running handleMultiPlatformPublish: closure and locals
  calls,              \* adapter calls started by the last batch, in order
  saves,              \* saveGeneratedContent calls started by the last batch
  events,             \* what the user has done so far
  returned            \* the handler that last returned at its first line

vars == <<currentUser, storedCredentials, pendingLoads, selectedPlatforms,
          generatedContent, generatedImage, isGenerating, isPublishing,
          publishStatus, statusMessage, publishResults, gen, genSeq, pub,
          calls, saves, events, returned>>

(* ----------------------- capability registry --------------------------- *)

\* Enabled with facebook_ads asking for its own credential only
EnabledOwnCredential(platformId, creds) ==
  platformId \in CredTypes /\ creds[platformId] # NoCred

\* availablePlatforms[..].enabled
Enabled(platformId, creds) ==
  CASE platformId = "facebook"     -> creds["facebook"] # NoCred
    [] platformId = "facebook_ads" -> creds["facebook"] # NoCred /\ creds["facebook_ads"] # NoCred
    [] platformId = "instagram"    -> creds["instagram"] # NoCred
    [] platformId = "linkedin"     -> creds["linkedin"] # NoCred
    [] OTHER                       -> FALSE

(* ------------------------- credential cache ---------------------------- *)

\* what an awaited getCredentials call can do
LoadOutcomes ==
  [kind : {"data"}, data : CredentialStores]
    \cup { [kind |-> "nodata", data |-> EmptyCredentials],
           [kind |-> "throw", data |-> EmptyCredentials] }

\* useEffect(() => loadAllCredentials(), [currentUser, platform]) after the
\* user `user` is rendered: with no user the load returns at once, otherwise
\* getCredentials is awaited.
StartLoad(user) ==
  IF user = NoUser THEN pendingLoads' = pendingLoads
  ELSE pendingLoads' = pendingLoads + 1

\* the auth context delivers another user (sign-in, sign-out); the effect runs
UserChange(u) ==
  /\ u # currentUser
  /\ events < MaxEvents
  /\ events' = events + 1
  /\ currentUser' = u
  /\ StartLoad(u)
  /\ UNCHANGED <<storedCredentials, selectedPlatforms, generatedContent,
                 generatedImage, isGenerating, isPublishing, publishStatus,
                 statusMessage, publishResults, gen, genSeq, pub, calls, saves,
                 returned>>

\* the platform prop changes; the effect runs
PlatformChange ==
  /\ events < MaxEvents
  /\ events' = events + 1
  /\ StartLoad(currentUser)
  /\ UNCHANGED <<currentUser, storedCredentials, selectedPlatforms,
                 generatedContent, generatedImage, isGenerating, isPublishing,
                 publishStatus, statusMessage, publishResults, gen, genSeq,
                 pub, calls, saves, returned>>

\* CredentialsAfterLoad with the cache emptied when the load fails
CredentialsAfterLoadOrEmpty(o, creds) ==
  IF o.kind = "data" THEN o.data ELSE EmptyCredentials

\* the map loadAllCredentials stores after getCredentials returned `o`
CredentialsAfterLoad(o, creds) ==
  IF o.kind = "data" THEN o.data ELSE creds

\* LoadReturn with the running batch reading the credential cache it writes
LoadReturnIntoBatch(o) ==
  /\ pendingLoads > 0
  /\ pendingLoads' = pendingLoads - 1
  /\ storedCredentials' = CredentialsAfterLoad(o, storedCredentials)
  /\ pub' = [pub EXCEPT !.creds = CredentialsAfterLoad(o, storedCredentials)]
  /\ UNCHANGED <<currentUser, selectedPlatforms, generatedContent,
                 generatedImage, isGenerating, isPublishing, publishStatus,
                 statusMessage, publishResults, gen, genSeq, calls, saves, events,
                 returned>>

\* loadAllCredentials resumes after its await
LoadReturn(o) ==
  /\ pendingLoads > 0
  /\ pendingLoads' = pendingLoads - 1
  /\ storedCredentials' = CredentialsAfterLoad(o, storedCredentials)
  /\ UNCHANGED <<currentUser, selectedPlatforms, generatedContent,
                 generatedImage, isGenerating, isPublishing, publishStatus,
                 statusMessage, publishResults, gen, genSeq, pub, calls, saves, events,
                 returned>>

(* ------------------------------ selection ------------------------------ *)

\* prev.includes(platformId)
Includes(seq, x) == \E k \in 1..Len(seq) : seq[k] = x

\* prev.filter(id => id !== platformId)
RECURSIVE Without(_, _)
Without(seq, x) ==
  IF seq = <<>> THEN <<>>
  ELSE IF Head(seq) = x THEN Without(Tail(seq), x)
  ELSE <<Head(seq)>> \o Without(Tail(seq), x)

\* Toggled with a new target put in front: [platformId, ...prev]
ToggledInFront(prev, platformId) ==
  IF Includes(prev, platformId) THEN Without(prev, platformId)
  ELSE <<platformId>> \o prev

\* the updater of handlePlatformToggle
Toggled(prev, platformId) ==
  IF Includes(prev, platformId) THEN Without(prev, platformId)
  ELSE Append(prev, platformId)

\* a click on a platform card: the cards are rendered once there is generated
\* text, and the click handler is isEnabled && handlePlatformToggle(id)
HandlePlatformToggle(platformId) ==
  /\ generatedContent # NoArtifact
  /\ Enabled(platformId, storedCredentials)
  /\ events < MaxEvents
  /\ events' = events + 1
  /\ selectedPlatforms' = Toggled(selectedPlatforms, platformId)
  /\ UNCHANGED <<currentUser, storedCredentials, pendingLoads, generatedContent,
                 generatedImage, isGenerating, isPublishing, publishStatus,
                 statusMessage, publishResults, gen, genSeq, pub, calls, saves,
                 returned>>

(* ------------------------- generation pipeline ------------------------- *)

\* String.prototype.trim on the characters of the prompt
RECURSIVE TrimStart(_)
TrimStart(p) ==
  IF p # <<>> /\ Head(p) = " " THEN TrimStart(Tail(p)) ELSE p

RECURSIVE TrimEnd(_)
TrimEnd(p) ==
  IF p # <<>> /\ p[Len(p)] = " " THEN TrimEnd(SubSeq(p, 1, Len(p) - 1)) ELSE p

\* Trim that removes nothing: the test !prompt in place of !prompt.trim()
TrimNothing(p) == p

Trim(p) == TrimEnd(TrimStart(p))

\* a status message: the template used and the counts it prints
Message(kind, successCount, totalCount) ==
  [kind |-> kind, successCount |-> successCount, totalCount |-> totalCount]

\* useState('') of statusMessage
NoMessage == Message("", NoCount, NoCount)

\* 'Failed to generate content. Please try again.'
GenerationFailedMessage == Message("generation failed", NoCount, NoCount)

\* handleGenerate when none is running.  While one runs, pc names the awaited
\* call, id the request, and content0 and image0 the text and image that were
\* displayed when it was started.
IdleGen == [pc |-> "idle", id |-> NoArtifact, content0 |-> NoArtifact,
            image0 |-> NoArtifact]

\* handleGenerate up to its first await (generatePostContent).  The button
\* that calls it is disabled while a generation runs, and on a blank prompt,
\* the condition the first line of the handler tests again.
HandleGenerate(prompt) ==
  /\ ~isGenerating
  /\ events < MaxEvents
  /\ IF Trim(prompt) = <<>>
     THEN /\ returned' = "handleGenerate"
          /\ events' = events + 1
          /\ UNCHANGED <<currentUser, storedCredentials, pendingLoads,
                         selectedPlatforms, generatedContent, generatedImage,
                         isGenerating, isPublishing, publishStatus, statusMessage,
                         publishResults, gen, genSeq, pub, calls, saves>>
     ELSE /\ isGenerating' = TRUE
          /\ publishStatus' = "idle"
          /\ publishResults' = EmptyResults
          /\ genSeq' = genSeq + 1
          /\ gen' = [pc |-> "text", id |-> genSeq + 1, content0 |-> generatedContent,
                      image0 |-> generatedImage]
          /\ events' = events + 1
          /\ UNCHANGED <<currentUser, storedCredentials, pendingLoads,
                         selectedPlatforms, generatedContent, generatedImage,
                         isPublishing, statusMessage, pub, calls, saves, returned>>

\* GenerateFailed without the finally block
GenerateFailedWithoutFinally ==
  /\ statusMessage' = GenerationFailedMessage
  /\ publishStatus' = "error"
  /\ isGenerating' = isGenerating
  /\ gen' = IdleGen

\* the catch and finally blocks of handleGenerate
GenerateFailed ==
  /\ statusMessage' = GenerationFailedMessage
  /\ publishStatus' = "error"
  /\ isGenerating' = FALSE
  /\ gen' = IdleGen

\* generatePostContent returns or throws
GenTextReturn(ok) ==
  /\ gen.pc = "text"
  /\ IF ok
     THEN /\ generatedContent' = gen.id
          /\ gen' = [gen EXCEPT !.pc = "desc"]
          /\ UNCHANGED <<statusMessage, publishStatus, isGenerating>>
     ELSE /\ GenerateFailed
          /\ UNCHANGED generatedContent
  /\ UNCHANGED <<currentUser, storedCredentials, pendingLoads, selectedPlatforms,
                 generatedImage, isPublishing, publishResults, genSeq, pub,
                 calls, saves, events, returned>>

\* generateImageDescription returns or throws
GenDescReturn(ok) ==
  /\ gen.pc = "desc"
  /\ IF ok
     THEN /\ gen' = [gen EXCEPT !.pc = "image"]
          /\ UNCHANGED <<statusMessage, publishStatus, isGenerating>>
     ELSE GenerateFailed
  /\ UNCHANGED <<currentUser, storedCredentials, pendingLoads, selectedPlatforms,
                 generatedContent, generatedImage, isPublishing, publishResults,
                 genSeq, pub, calls, saves, events, returned>>

\* generateImageUrl returns or throws
GenImageReturn(ok) ==
  /\ gen.pc = "image"
  /\ IF ok
     THEN /\ generatedImage' = gen.id
          /\ isGenerating' = FALSE
          /\ gen' = IdleGen
          /\ UNCHANGED <<statusMessage, publishStatus>>
     ELSE /\ GenerateFailed
          /\ UNCHANGED generatedImage
  /\ UNCHANGED <<currentUser, storedCredentials, pendingLoads, selectedPlatforms,
                 generatedContent, isPublishing, publishResults, genSeq, pub,
                 calls, saves, events, returned>>

(* ------------------------- publish orchestrator ------------------------ *)


\* Object.keys(results)
Keys(res) == DOMAIN res.map

\* results[platformId] = outcome
Put(res, platformId, outcome) ==
  [map   |-> (platformId :> outcome) @@ res.map,
   order |-> IF platformId \in DOMAIN res.map THEN res.order
             ELSE Append(res.order, platformId)]

Failure(message) == [success |-> FALSE, message |-> message, postId |-> NoPostId]

Success(message, postId) == [success |-> TRUE, message |-> message, postId |-> postId]

\* the message of the `credentials not found` outcome of each case
CredentialsNotFoundMessage(platformId) ==
  CASE platformId = "facebook"     -> "Facebook credentials not found"
    [] platformId = "facebook_ads" -> "Facebook or Facebook Ads credentials not found"
    [] platformId = "instagram"    -> "Instagram credentials not found"
    [] platformId = "linkedin"     -> "LinkedIn credentials not found"
    [] OTHER                       -> "Unsupported platform"

\* `Failed to publish to ${platformId}`
FallbackMessage(platformId) ==
  CASE platformId = "facebook"     -> "Failed to publish to facebook"
    [] platformId = "facebook_ads" -> "Failed to publish to facebook_ads"
    [] platformId = "instagram"    -> "Failed to publish to instagram"
    [] platformId = "linkedin"     -> "Failed to publish to linkedin"
    [] OTHER                       -> "Failed to publish to"

\* CredentialsFound with the facebook_ads case checking only its own credential
CredentialsFoundOwnOnly(platformId, creds) ==
  platformId \in CredTypes /\ creds[platformId] # NoCred

\* the credential checks of the switch: !facebookCreds, !fbCreds || !fbAdsCreds,
\* !instagramCreds, !linkedInCreds
CredentialsFound(platformId, creds) ==
  CASE platformId = "facebook"     -> creds["facebook"] # NoCred
    [] platformId = "facebook_ads" -> creds["facebook"] # NoCred /\ creds["facebook_ads"] # NoCred
    [] platformId = "instagram"    -> creds["instagram"] # NoCred
    [] platformId = "linkedin"     -> creds["linkedin"] # NoCred
    [] OTHER                       -> FALSE

\* the adapter a case of the switch calls first
PublishOp(platformId) ==
  CASE platformId = "facebook"     -> "publishToFacebook"
    [] platformId = "facebook_ads" -> "publishToFacebook"
    [] platformId = "instagram"    -> "publishToInstagram"
    [] platformId = "linkedin"     -> "publishToLinkedIn"

\* the credential record whose fields the first adapter call is given
PublishCredential(platformId, creds) ==
  CASE platformId = "facebook"     -> creds["facebook"]
    [] platformId = "facebook_ads" -> creds["facebook"]
    [] platformId = "instagram"    -> creds["instagram"]
    [] platformId = "linkedin"     -> creds["linkedin"]

\* the post id a platform gives to a post published for `platformId`
PostIdFor(platformId) ==
  CASE platformId = "facebook"     -> "post_facebook"
    [] platformId = "facebook_ads" -> "post_facebook_ads"
    [] platformId = "instagram"    -> "post_instagram"
    [] platformId = "linkedin"     -> "post_linkedin"

\* what an awaited publish adapter can do: return {success, postId?, error?}
\* or throw an error with or without a message
PublishReturns(platformId) ==
  { [kind |-> "ok",    postId |-> PostIdFor(platformId), text |-> ""],
    [kind |-> "ok",    postId |-> NoPostId,              text |-> ""],
    [kind |-> "fail",  postId |-> NoPostId,              text |-> "rejected"],
    [kind |-> "fail",  postId |-> NoPostId,              text |-> ""],
    [kind |-> "throw", postId |-> NoPostId,              text |-> "boom"],
    [kind |-> "throw", postId |-> NoPostId,              text |-> ""] }

\* handleMultiPlatformPublish before its first run.  pc is "call" while an
\* adapter call is awaited, "save" while saveGeneratedContent is awaited and
\* "done" once the handler has returned (after finally).
IdlePub ==
  [pc |-> "idle", sel |-> <<>>, creds |-> EmptyCredentials, content |-> NoArtifact,
   image |-> NoArtifact, user |-> NoUser, i |-> 0, op |-> "", postId |-> NoPostId,
   results |-> EmptyResults, k |-> 0]

\* RunLoop with the outcome of a target without credentials left out
RECURSIVE RunLoopSkipsMissing(_, _, _)
RunLoopSkipsMissing(b, res, i) ==
  IF i > Len(b.sel) THEN [pc |-> "report", i |-> i, results |-> res]
  ELSE IF ~CredentialsFound(b.sel[i], b.creds)
       THEN RunLoopSkipsMissing(b, res, i + 1)
       ELSE [pc |-> "call", i |-> i, results |-> res]

\* the for loop from its i-th target up to the next await: the targets whose
\* credentials are missing get their outcome and the loop goes on (continue)
RECURSIVE RunLoop(_, _, _)
RunLoop(b, res, i) ==
  IF i > Len(b.sel) THEN [pc |-> "report", i |-> i, results |-> res]
  ELSE IF ~CredentialsFound(b.sel[i], b.creds)
       THEN RunLoop(b, Put(res, b.sel[i], Failure(CredentialsNotFoundMessage(b.sel[i]))), i + 1)
       ELSE [pc |-> "call", i |-> i, results |-> res]

\* Object.values(results).filter(r => r.success).length
SuccessCount(res) == Cardinality({t \in Keys(res) : res.map[t].success})

\* TotalCount over the targets an adapter was called for only
TotalCountOfCalled(res) ==
  Cardinality({t \in Keys(res) : res.map[t].message # CredentialsNotFoundMessage(t)})

\* Object.keys(results).length
TotalCount(res) == Cardinality(Keys(res))

\* OverallStatus with a batch that succeeded in part reported as an error
OverallStatusPartialIsError(successCount, totalCount) ==
  IF successCount = totalCount
  THEN [status |-> "success",
        message |-> Message("all", NoCount, totalCount)]
  ELSE IF successCount > 0
  THEN [status |-> "error",
        message |-> Message("partial", successCount, totalCount)]
  ELSE [status |-> "error",
        message |-> Message("none", NoCount, NoCount)]

\* the status and the message set from the two counts
OverallStatus(successCount, totalCount) ==
  IF successCount = totalCount
  THEN [status |-> "success",
        message |-> Message("all", NoCount, totalCount)]
  ELSE IF successCount > 0
  THEN [status |-> "success",
        message |-> Message("partial", successCount, totalCount)]
  ELSE [status |-> "error",
        message |-> Message("none", NoCount, NoCount)]

\* NextSave without the test of result.success
NextSaveAnyOutcome(user, res, k) ==
  IF user = NoUser \/ k > Len(res.order) THEN 0 ELSE k

\* the first entry of Object.entries(results), from the k-th on, that is saved
RECURSIVE NextSave(_, _, _)
NextSave(user, res, k) ==
  IF user = NoUser \/ k > Len(res.order) THEN 0
  ELSE IF res.map[res.order[k]].success THEN k
  ELSE NextSave(user, res, k + 1)

\* the record handed to saveGeneratedContent for the k-th entry
SaveRecord(b, res, k) ==
  [uid |-> b.user, platform |-> res.order[k], postId |-> res.map[res.order[k]].postId,
   generatedContent |-> b.content, generatedImageUrl |-> b.image, ret |-> "pending"]

\* RunSaves without the finally block
RunSavesWithoutFinally(b, res, k, st) ==
  LET n == NextSave(b.user, res, k) IN
  IF n # 0
  THEN [pub |-> [b EXCEPT !.pc = "save", !.results = res, !.k = n, !.i = Len(b.sel) + 1,
                          !.op = "", !.postId = NoPostId],
        newCalls |-> <<>>, newSaves |-> <<SaveRecord(b, res, n)>>,
        isPublishing |-> TRUE, publishResults |-> st.publishResults,
        publishStatus |-> st.publishStatus, statusMessage |-> st.statusMessage]
  ELSE [pub |-> [b EXCEPT !.pc = "done", !.results = res, !.k = 0, !.i = Len(b.sel) + 1,
                          !.op = "", !.postId = NoPostId],
        newCalls |-> <<>>, newSaves |-> <<>>,
        isPublishing |-> TRUE, publishResults |-> st.publishResults,
        publishStatus |-> st.publishStatus, statusMessage |-> st.statusMessage]

\* the save loop from the k-th entry up to the next await, or to the end of
\* the handler (finally: setIsPublishing(false))
RunSaves(b, res, k, st) ==
  LET n == NextSave(b.user, res, k) IN
  IF n # 0
  THEN [pub |-> [b EXCEPT !.pc = "save", !.results = res, !.k = n, !.i = Len(b.sel) + 1,
                          !.op = "", !.postId = NoPostId],
        newCalls |-> <<>>, newSaves |-> <<SaveRecord(b, res, n)>>,
        isPublishing |-> TRUE, publishResults |-> st.publishResults,
        publishStatus |-> st.publishStatus, statusMessage |-> st.statusMessage]
  ELSE [pub |-> [b EXCEPT !.pc = "done", !.results = res, !.k = 0, !.i = Len(b.sel) + 1,
                          !.op = "", !.postId = NoPostId],
        newCalls |-> <<>>, newSaves |-> <<>>,
        isPublishing |-> FALSE, publishResults |-> st.publishResults,
        publishStatus |-> st.publishStatus, statusMessage |-> st.statusMessage]

\* after the loop: setPublishResults(results), the overall status, the saves.
\* Nothing between the inner try of the loop and the try of each save can
\* throw, so the outer catch of the handler is never entered.
Report(b, res) ==
  LET o == OverallStatus(SuccessCount(res), TotalCount(res)) IN
  RunSaves(b, res, 1,
           [publishResults |-> res, publishStatus |-> o.status, statusMessage |-> o.message])

\* the call record of the first adapter call for the i-th target
PublishCall(b, i) ==
  [platformId |-> b.sel[i], op |-> PublishOp(b.sel[i]), text |-> b.content,
   image |-> IF PublishOp(b.sel[i]) = "publishToLinkedIn" THEN NoImageArg ELSE b.image,
   credential |-> PublishCredential(b.sel[i], b.creds), postId |-> NoPostId,
   ret |-> "pending"]

\* the call record of createAutomaticFacebookAd(postId, generatedImage, generatedContent)
AdCall(b, postId) ==
  [platformId |-> b.sel[b.i], op |-> "createAutomaticFacebookAd", text |-> b.content,
   image |-> b.image, credential |-> NoCred, postId |-> postId, ret |-> "pending"]

\* Resume with the adapter of the next target called before the one of the
\* current target is awaited
ResumeWithoutAwait(b, res, i, st) ==
  LET run == RunLoop(b, res, i) IN
  IF run.pc = "call"
  THEN [pub |-> [b EXCEPT !.pc = "call", !.i = run.i, !.op = PublishOp(b.sel[run.i]),
                          !.postId = NoPostId, !.results = run.results],
        newCalls |-> IF run.i < Len(b.sel) /\ CredentialsFound(b.sel[run.i + 1], b.creds)
                     THEN <<PublishCall(b, run.i + 1), PublishCall(b, run.i)>>
                     ELSE <<PublishCall(b, run.i)>>,
        newSaves |-> <<>>,
        isPublishing |-> TRUE, publishResults |-> st.publishResults,
        publishStatus |-> st.publishStatus, statusMessage |-> st.statusMessage]
  ELSE Report(b, run.results)

\* the handler from the i-th target of the loop up to its next await or its end.
\* `st` holds the state cells the handler has written so far in this step.
Resume(b, res, i, st) ==
  LET run == RunLoop(b, res, i) IN
  IF run.pc = "call"
  THEN [pub |-> [b EXCEPT !.pc = "call", !.i = run.i, !.op = PublishOp(b.sel[run.i]),
                          !.postId = NoPostId, !.results = run.results],
        newCalls |-> <<PublishCall(b, run.i)>>, newSaves |-> <<>>,
        isPublishing |-> TRUE, publishResults |-> st.publishResults,
        publishStatus |-> st.publishStatus, statusMessage |-> st.statusMessage]
  ELSE Report(b, run.results)

\* the last call of a log, marked with how it ended
Returned(log, ret) == [log EXCEPT ![Len(log)].ret = ret]

\* the step's writes to the state cells and to the running handler
Apply(out, oldCalls, oldSaves) ==
  /\ pub' = out.pub
  /\ calls' = oldCalls \o out.newCalls
  /\ saves' = oldSaves \o out.newSaves
  /\ isPublishing' = out.isPublishing
  /\ publishResults' = out.publishResults
  /\ publishStatus' = out.publishStatus
  /\ statusMessage' = out.statusMessage

\* the state cells as they are now
Cells == [publishResults |-> publishResults, publishStatus |-> publishStatus,
          statusMessage |-> statusMessage]

\* the closure of the render in which the publish button is clicked
Closure ==
  [IdlePub EXCEPT !.sel = selectedPlatforms, !.creds = storedCredentials,
                  !.content = generatedContent, !.image = generatedImage,
                  !.user = currentUser]

\* the publish button is rendered and enabled
CanPublish ==
  /\ generatedContent # NoArtifact
  /\ Len(selectedPlatforms) > 0
  /\ ~isPublishing

\* HandleMultiPlatformPublish whose first line tests the generated text only
HandleMultiPlatformPublishAnySelection ==
  /\ ~isPublishing
  /\ events < MaxEvents
  /\ IF generatedContent = NoArtifact
     THEN /\ returned' = "handleMultiPlatformPublish"
          /\ events' = events + 1
          /\ UNCHANGED <<currentUser, storedCredentials, pendingLoads,
                         selectedPlatforms, generatedContent, generatedImage,
                         isGenerating, isPublishing, publishStatus, statusMessage,
                         publishResults, gen, genSeq, pub, calls, saves>>
     ELSE /\ Apply(Resume(Closure, EmptyResults, 1,
                          [Cells EXCEPT !.publishStatus = "idle"]), <<>>, <<>>)
          /\ events' = events + 1
          /\ UNCHANGED <<currentUser, storedCredentials, pendingLoads,
                         selectedPlatforms, generatedContent, generatedImage,
                         isGenerating, gen, genSeq, returned>>

\* HandleMultiPlatformPublish with its button left enabled while a batch runs
HandleMultiPlatformPublishWhilePublishing ==
  /\ events < MaxEvents
  /\ IF generatedContent = NoArtifact \/ Len(selectedPlatforms) = 0
     THEN /\ returned' = "handleMultiPlatformPublish"
          /\ events' = events + 1
          /\ UNCHANGED <<currentUser, storedCredentials, pendingLoads,
                         selectedPlatforms, generatedContent, generatedImage,
                         isGenerating, isPublishing, publishStatus, statusMessage,
                         publishResults, gen, genSeq, pub, calls, saves>>
     ELSE /\ Apply(Resume(Closure, EmptyResults, 1,
                          [Cells EXCEPT !.publishStatus = "idle"]), <<>>, <<>>)
          /\ events' = events + 1
          /\ UNCHANGED <<currentUser, storedCredentials, pendingLoads,
                         selectedPlatforms, generatedContent, generatedImage,
                         isGenerating, gen, genSeq, returned>>

\* handleMultiPlatformPublish up to its first await.  The button that calls it
\* is rendered under generatedContent && selectedPlatforms.length > 0, the
\* condition the first line of the handler tests again, and is disabled while
\* a batch runs.
HandleMultiPlatformPublish ==
  /\ ~isPublishing
  /\ events < MaxEvents
  /\ IF generatedContent = NoArtifact \/ Len(selectedPlatforms) = 0
     THEN /\ returned' = "handleMultiPlatformPublish"
          /\ events' = events + 1
          /\ UNCHANGED <<currentUser, storedCredentials, pendingLoads,
                         selectedPlatforms, generatedContent, generatedImage,
                         isGenerating, isPublishing, publishStatus, statusMessage,
                         publishResults, gen, genSeq, pub, calls, saves>>
     ELSE /\ Apply(Resume(Closure, EmptyResults, 1,
                          [Cells EXCEPT !.publishStatus = "idle"]), <<>>, <<>>)
          /\ events' = events + 1
          /\ UNCHANGED <<currentUser, storedCredentials, pendingLoads,
                         selectedPlatforms, generatedContent, generatedImage,
                         isGenerating, gen, genSeq, returned>>

\* the outcome of a facebook, instagram or linkedin case after its adapter returned
PlainOutcome(platformId, r) ==
  CASE r.kind = "ok"    -> Success("Published successfully", r.postId)
    [] r.kind = "fail"  -> Failure(IF r.text # "" THEN r.text ELSE "Publishing failed")
    [] r.kind = "throw" -> Failure(IF r.text # "" THEN r.text ELSE FallbackMessage(platformId))

\* AdIsAttempted without the test of the post id
AdIsAttemptedOnSuccess(r) == r.kind = "ok"

\* fbResult.success && fbResult.postId
AdIsAttempted(r) == r.kind = "ok" /\ r.postId # NoPostId

\* the outcome of the facebook_ads case when no ad creation is attempted
AdsOutcomeWithoutAd(platformId, r) ==
  IF r.kind = "throw"
  THEN Failure(IF r.text # "" THEN r.text ELSE FallbackMessage(platformId))
  ELSE Failure("Failed to publish Facebook post for ad creation")

\* the outcome of the current case of the switch after its publish adapter
\* returned `r` and no further call is made for the target
PublishOutcome(platformId, r) ==
  IF platformId = "facebook_ads" THEN AdsOutcomeWithoutAd(platformId, r)
  ELSE PlainOutcome(platformId, r)

\* AfterPublish without the inner try: a throw reaches the outer catch
AfterPublishAbortsOnThrow(b, r, st) ==
  IF r.kind = "throw"
  THEN [pub |-> [b EXCEPT !.pc = "done", !.op = "", !.postId = NoPostId],
        newCalls |-> <<>>, newSaves |-> <<>>, isPublishing |-> FALSE,
        publishResults |-> st.publishResults, publishStatus |-> "error",
        statusMessage |-> Message("unexpected", NoCount, NoCount)]
  ELSE Resume(b, Put(b.results, b.sel[b.i], PublishOutcome(b.sel[b.i], r)), b.i + 1, st)

\* the inner try of the loop after the publish adapter of the current target
\* returned or threw: the outcome is recorded (a throw by the inner catch) and
\* the loop goes on with the next target
AfterPublish(b, r, st) ==
  Resume(b, Put(b.results, b.sel[b.i], PublishOutcome(b.sel[b.i], r)), b.i + 1, st)

\* the awaited publish adapter of the current target returns or throws
PublishReturn(r) ==
  /\ pub.pc = "call"
  /\ pub.op # "createAutomaticFacebookAd"
  /\ r \in PublishReturns(pub.sel[pub.i])
  /\ IF pub.sel[pub.i] = "facebook_ads" /\ AdIsAttempted(r)
     THEN /\ pub' = [pub EXCEPT !.op = "createAutomaticFacebookAd", !.postId = r.postId]
          /\ calls' = Append(Returned(calls, r.kind), AdCall(pub, r.postId))
          /\ UNCHANGED <<saves, isPublishing, publishResults, publishStatus,
                         statusMessage, returned>>
     ELSE Apply(AfterPublish(pub, r, Cells), Returned(calls, r.kind), saves)
  /\ UNCHANGED <<currentUser, storedCredentials, pendingLoads, selectedPlatforms,
                 generatedContent, generatedImage, isGenerating, gen, genSeq, events,
                 returned>>

\* the outcome of the facebook_ads case after createAutomaticFacebookAd
AdOutcome(created, postId) ==
  IF created
  THEN Success("Facebook post published and ad created successfully", postId)
  ELSE Failure("Facebook post published but ad creation failed")

\* the awaited createAutomaticFacebookAd returns (created) or throws
AdReturn(created) ==
  /\ pub.pc = "call"
  /\ pub.op = "createAutomaticFacebookAd"
  /\ Apply(Resume(pub, Put(pub.results, pub.sel[pub.i], AdOutcome(created, pub.postId)),
                  pub.i + 1, Cells),
           Returned(calls, IF created THEN "ok" ELSE "throw"), saves)
  /\ UNCHANGED <<currentUser, storedCredentials, pendingLoads, selectedPlatforms,
                 generatedContent, generatedImage, isGenerating, gen, genSeq, events,
                 returned>>

\* AfterSave without the try around the save: a throw reaches the outer catch
AfterSaveAbortsOnThrow(b, saved, st) ==
  IF saved THEN RunSaves(b, b.results, b.k + 1, st)
  ELSE [pub |-> [b EXCEPT !.pc = "done", !.k = 0],
        newCalls |-> <<>>, newSaves |-> <<>>, isPublishing |-> FALSE,
        publishResults |-> st.publishResults, publishStatus |-> "error",
        statusMessage |-> Message("unexpected", NoCount, NoCount)]

\* the save loop after saveGeneratedContent returned or threw: a throw is
\* logged, and the loop goes on with the next entry
AfterSave(b, saved, st) == RunSaves(b, b.results, b.k + 1, st)

\* the awaited saveGeneratedContent returns or throws
SaveReturn(saved) ==
  /\ pub.pc = "save"
  /\ Apply(AfterSave(pub, saved, Cells), calls,
           Returned(saves, IF saved THEN "ok" ELSE "throw"))
  /\ UNCHANGED <<currentUser, storedCredentials, pendingLoads, selectedPlatforms,
                 generatedContent, generatedImage, isGenerating, gen, genSeq, events,
                 returned>>

(* --------------------------- the state machine ------------------------- *)

\* the component after its first render and effect
Init ==
  /\ currentUser \in Users \cup {NoUser}
  /\ storedCredentials = EmptyCredentials
  /\ pendingLoads = IF currentUser = NoUser THEN 0 ELSE 1
  /\ selectedPlatforms = <<>>
  /\ generatedContent = NoArtifact
  /\ generatedImage = NoArtifact
  /\ isGenerating = FALSE
  /\ isPublishing = FALSE
  /\ publishStatus = "idle"
  /\ statusMessage = NoMessage
  /\ publishResults = EmptyResults
  /\ gen = IdleGen
  /\ genSeq = 0
  /\ pub = IdlePub
  /\ calls = <<>>
  /\ saves = <<>>
  /\ events = 0
  /\ returned = ""

Next ==
  \/ \E u \in Users \cup {NoUser} : UserChange(u)
  \/ PlatformChange
  \/ \E o \in LoadOutcomes : LoadReturn(o)
  \/ \E p \in Targets : HandlePlatformToggle(p)
  \/ \E prompt \in Prompts : HandleGenerate(prompt)
  \/ \E ok \in BOOLEAN : GenTextReturn(ok)
  \/ \E ok \in BOOLEAN : GenDescReturn(ok)
  \/ \E ok \in BOOLEAN : GenImageReturn(ok)
  \/ HandleMultiPlatformPublish
  \/ \E r \in UNION {PublishReturns(t) : t \in Targets} : PublishReturn(r)
  \/ \E created \in BOOLEAN : AdReturn(created)
  \/ \E saved \in BOOLEAN : SaveReturn(saved)

Spec == Init /\ [][Next]_vars

(* ------------------ one batch over every selection --------------------- *)

\* the selections the user can build: the sequences of distinct targets
Selections ==
  { sel \in UNION { [1..n -> Targets] : n \in 0..Cardinality(Targets) } :
      \A j, k \in DOMAIN sel : j # k => sel[j] # sel[k] }

\* the screen with an artifact generated, credentials loaded and a selection
\* made, the user (who may have signed out since) having one click left
InitBatch ==
  /\ currentUser \in Users \cup {NoUser}
  /\ storedCredentials \in CredentialStores
  /\ pendingLoads = 0
  /\ selectedPlatforms \in Selections
  /\ generatedContent = 1
  /\ generatedImage = 1
  /\ isGenerating = FALSE
  /\ isPublishing = FALSE
  /\ publishStatus = "idle"
  /\ statusMessage = NoMessage
  /\ publishResults = EmptyResults
  /\ gen = IdleGen
  /\ genSeq = 1
  /\ pub = IdlePub
  /\ calls = <<>>
  /\ saves = <<>>
  /\ events = MaxEvents - 1
  /\ returned = ""

NextBatch ==
  \/ HandleMultiPlatformPublish
  \/ \E r \in UNION {PublishReturns(t) : t \in Targets} : PublishReturn(r)
  \/ \E created \in BOOLEAN : AdReturn(created)
  \/ \E saved \in BOOLEAN : SaveReturn(saved)

SpecBatch == InitBatch /\ [][NextBatch]_vars

(* ------------- one batch with the user acting while it runs ------------ *)

\* facebook_ads, the target with two adapter calls, followed by another target
LiveSelections ==
  { sel \in Selections : Len(sel) = 2 /\ sel[1] = "facebook_ads" }

\* the screen with an artifact generated, credentials loaded and two targets
\* selected, the user having two clicks left
InitLive ==
  /\ currentUser \in Users
  /\ storedCredentials \in CredentialStores
  /\ pendingLoads = 0
  /\ selectedPlatforms \in LiveSelections
  /\ generatedContent = 1
  /\ generatedImage = 1
  /\ isGenerating = FALSE
  /\ isPublishing = FALSE
  /\ publishStatus = "idle"
  /\ statusMessage = NoMessage
  /\ publishResults = EmptyResults
  /\ gen = IdleGen
  /\ genSeq = 1
  /\ pub = IdlePub
  /\ calls = <<>>
  /\ saves = <<>>
  /\ events = MaxEvents - 2
  /\ returned = ""

\* an awaited call of the batch (adapter, ad creation, history save) returns
\* or throws
ExternalReturn ==
  \/ \E r \in UNION {PublishReturns(t) : t \in Targets} : PublishReturn(r)
  \/ \E created \in BOOLEAN : AdReturn(created)
  \/ \E saved \in BOOLEAN : SaveReturn(saved)

\* the promises of the external calls are settled: each call eventually
\* returns or throws
SpecLive == InitLive /\ [][Next]_vars /\ WF_vars(ExternalReturn)

\* an awaited call of handleGenerate (generatePostContent,
\* generateImageDescription, generateImageUrl) returns or throws
GenerationReturn ==
  \/ \E ok \in BOOLEAN : GenTextReturn(ok)
  \/ \E ok \in BOOLEAN : GenDescReturn(ok)
  \/ \E ok \in BOOLEAN : GenImageReturn(ok)

\* the same screen, the promises of the generation calls being settled
SpecGenerate == InitLive /\ [][Next]_vars /\ WF_vars(GenerationReturn)

(* ------------------------------ properties ----------------------------- *)

AllReturns == UNION {PublishReturns(t) : t \in Targets}

\* the targets of a selection
SelectedSet(sel) == {sel[k] : k \in 1..Len(sel)}

\* a step in which handleMultiPlatformPublish passes its first line: a batch starts
StartsBatch ==
  /\ HandleMultiPlatformPublish
  /\ generatedContent # NoArtifact
  /\ Len(selectedPlatforms) > 0

\* a step of the publish handler that runs its for loop
LoopStep ==
  \/ StartsBatch
  \/ \E r \in AllReturns : PublishReturn(r)
  \/ \E created \in BOOLEAN : AdReturn(created)

\* a step in which the for loop ends and the outcomes are reported
LoopEnds == LoopStep /\ pub'.pc \in {"save", "done"}

\* C1: when a batch started with generated text and a non-empty selection
\* finishes its loop, the outcome map it reports (setPublishResults) has exactly
\* the targets selected at the click as its keys, each once, whatever the
\* handlers did; the batch keeps the selection of the click throughout.
C1_OneOutcomePerSelectedTarget ==
  [][ /\ StartsBatch => pub'.sel = selectedPlatforms
      /\ pub.pc \in {"call", "save"} => pub'.sel = pub.sel
      /\ LoopEnds => /\ Keys(publishResults') = SelectedSet(pub'.sel)
                     /\ publishResults'.order = pub'.sel
                     /\ publishResults' = pub'.results ]_vars

\* a batch of three targets has reported three outcomes, among them a success,
\* a thrown error and a missing credential
C1_Witness ==
  /\ pub.pc \in {"save", "done"}
  /\ Len(pub.sel) = 3
  /\ publishResults = pub.results
  /\ Keys(publishResults) = SelectedSet(pub.sel)
  /\ \E t \in Keys(publishResults) : publishResults.map[t].success
  /\ \E t \in Keys(publishResults) : publishResults.map[t].message = "boom"
  /\ \E t \in Keys(publishResults) :
       publishResults.map[t].message = CredentialsNotFoundMessage(t)

\* the step after the current target: the next target of the selection has its
\* outcome or its adapter call is in flight; after the last target the loop is over
GoesOn ==
  /\ pub'.sel = pub.sel
  /\ IF pub.i < Len(pub.sel)
     THEN \/ pub.sel[pub.i + 1] \in Keys(pub'.results)
          \/ /\ pub'.pc = "call"
             /\ pub'.i = pub.i + 1
             /\ calls'[Len(calls')].platformId = pub.sel[pub.i + 1]
             /\ calls'[Len(calls')].ret = "pending"
     ELSE pub'.pc \in {"save", "done"}

\* C2: when the publish adapter of a target throws, the target gets a failure
\* outcome carrying the error's message, or `Failed to publish to <target>`
\* when the error has none, and the loop goes on with the next target; when
\* createAutomaticFacebookAd throws, facebook_ads gets the failure outcome of
\* the handler's own catch and the loop goes on as well; and when the loop
\* ends every target of the selection has an outcome.
C2_ThrowDoesNotStopBatch ==
  [][ /\ \A r \in AllReturns :
           (r.kind = "throw" /\ PublishReturn(r)) =>
             /\ pub.sel[pub.i] \in Keys(pub'.results)
             /\ pub'.results.map[pub.sel[pub.i]] =
                  Failure(IF r.text # "" THEN r.text ELSE FallbackMessage(pub.sel[pub.i]))
             /\ GoesOn
      /\ AdReturn(FALSE) =>
             /\ pub.sel[pub.i] \in Keys(pub'.results)
             /\ pub'.results.map[pub.sel[pub.i]] =
                  Failure("Facebook post published but ad creation failed")
             /\ GoesOn
      /\ LoopEnds => \A k \in 1..Len(pub'.sel) : pub'.sel[k] \in Keys(publishResults') ]_vars

\* the adapter of the first target threw without a message, and a later target
\* was then published with success
C2_Witness ==
  /\ Len(calls) >= 2
  /\ calls[1].ret = "throw"
  /\ calls[1].platformId = pub.sel[1]
  /\ pub.results.map[pub.sel[1]] = Failure(FallbackMessage(pub.sel[1]))
  /\ \E n \in 2..Len(calls) :
       /\ calls[n].platformId # calls[1].platformId
       /\ calls[n].ret = "ok"
       /\ calls[n].platformId \in Keys(pub.results)
       /\ pub.results.map[calls[n].platformId].success

\* the messages that say that the Facebook post was published
PartialEffectMessages == {"Facebook post published but ad creation failed"}

\* C3: the facebook_ads outcome is success iff the Facebook publish and the ad
\* creation both succeeded, and whenever the Facebook publish succeeded and no
\* ad was created the outcome is a failure whose message says that the post
\* was published (also when the publish returned no post id).
C3_AdsOutcome ==
  (pub.pc # "idle" /\ "facebook_ads" \in Keys(pub.results)) =>
    LET o == pub.results.map["facebook_ads"]
        published == \E n \in 1..Len(calls) :
                       /\ calls[n].platformId = "facebook_ads"
                       /\ calls[n].op = "publishToFacebook"
                       /\ calls[n].ret = "ok"
        created == \E n \in 1..Len(calls) :
                       /\ calls[n].platformId = "facebook_ads"
                       /\ calls[n].op = "createAutomaticFacebookAd"
                       /\ calls[n].ret = "ok"
    IN /\ o.success <=> (published /\ created)
       /\ (published /\ ~created) => (~o.success /\ o.message \in PartialEffectMessages)

\* the credentials a target needs
RequiredCredentials(t) ==
  CASE t = "facebook"     -> {"facebook"}
    [] t = "facebook_ads" -> {"facebook", "facebook_ads"}
    [] t = "instagram"    -> {"instagram"}
    [] t = "linkedin"     -> {"linkedin"}

\* the k-th target of the running or finished batch has been processed
Processed(k) ==
  \/ pub.pc \in {"save", "done"}
  \/ pub.pc = "call" /\ k < pub.i

\* C4: a target of the batch one of whose required credentials is missing from
\* the credential cache the batch reads has a success:false outcome once the
\* loop has passed it, no adapter is ever called for it (for facebook_ads
\* neither publishToFacebook nor createAutomaticFacebookAd), the loop never
\* waits at it, and the targets before the one in flight all have an outcome.
C4_MissingCredential ==
  \A k \in 1..Len(pub.sel) :
    /\ (pub.pc # "idle" /\ Processed(k)) => pub.sel[k] \in Keys(pub.results)
    /\ (\E c \in RequiredCredentials(pub.sel[k]) : pub.creds[c] = NoCred) =>
         /\ \A n \in 1..Len(calls) : calls[n].platformId # pub.sel[k]
         /\ ~(pub.pc = "call" /\ pub.i = k)
         /\ Processed(k) => ~pub.results.map[pub.sel[k]].success

\* facebook_ads, selected first, lacks the facebook credential and has its
\* failure outcome with no call made for it, and the next target was called
C4_Witness ==
  /\ Len(pub.sel) >= 2
  /\ pub.sel[1] = "facebook_ads"
  /\ pub.creds["facebook"] = NoCred
  /\ pub.creds["facebook_ads"] # NoCred
  /\ "facebook_ads" \in Keys(pub.results)
  /\ ~pub.results.map["facebook_ads"].success
  /\ Len(calls) >= 1
  /\ calls[1].platformId = pub.sel[2]

\* C5: when the loop of a batch ends, with s successful outcomes among the a
\* outcomes of the map (1 <= a <= 4): the message is the `all` one iff
\* s = a > 0, the `none` one iff s = 0 and the `partial` one iff 0 < s < a; the
\* `all` message prints a, the `partial` message prints s and a (the `none`
\* message is a fixed text); and publishStatus is 'error' exactly when s = 0,
\* 'success' otherwise.
C5_AggregateStatus ==
  [][ LoopEnds =>
        LET a == Cardinality(Keys(publishResults'))
            s == Cardinality({t \in Keys(publishResults') : publishResults'.map[t].success})
            m == statusMessage'
        IN /\ 1 <= a /\ a <= Cardinality(Targets) /\ 0 <= s /\ s <= a
           /\ (m.kind = "all") <=> (s = a /\ a > 0)
           /\ (m.kind = "none") <=> (s = 0)
           /\ (m.kind = "partial") <=> (0 < s /\ s < a)
           /\ m.kind \in {"all", "none", "partial"}
           /\ m.kind = "all" => m.totalCount = a
           /\ m.kind = "partial" => (m.successCount = s /\ m.totalCount = a)
           /\ (publishStatus' = "error") <=> (s = 0)
           /\ (publishStatus' = "success") <=> (s > 0) ]_vars

\* a batch of four targets reported two successes: partial, `2 out of 4`
C5_Witness ==
  /\ pub.pc \in {"save", "done"}
  /\ publishResults = pub.results
  /\ TotalCount(publishResults) = 4
  /\ SuccessCount(publishResults) = 2
  /\ statusMessage = Message("partial", 2, 4)
  /\ publishStatus = "success"

\* a step in which a generation step throws
GenerationFails ==
  \/ GenTextReturn(FALSE)
  \/ GenDescReturn(FALSE)
  \/ GenImageReturn(FALSE)

\* C6: when a step of handleGenerate fails, the generated text and the
\* generated image are those displayed before the call, and the caller sees
\* the error status with the generation-failed message.
C6_NoPartialArtifact ==
  [][ GenerationFails =>
        /\ generatedContent' = gen.content0
        /\ generatedImage' = gen.image0
        /\ publishStatus' = "error"
        /\ statusMessage' = GenerationFailedMessage
        /\ ~isGenerating' ]_vars

\* a text and an image of two different generation requests
Mismatch(text, image) ==
  /\ text # NoArtifact
  /\ image # NoArtifact
  /\ image # NoImageArg
  /\ text # image

\* C7: whenever a batch can be started the displayed text and image are not of
\* two different generation requests, and no adapter call of a batch carries
\* the text of one request with the image of another.
C7_ArtifactIsWhole ==
  /\ CanPublish => ~Mismatch(generatedContent, generatedImage)
  /\ \A n \in 1..Len(calls) : ~Mismatch(calls[n].text, calls[n].image)

\* the entry of the outcome object after the k-th whose save comes next, or 0
NextSuccessAfter(res, k) ==
  IF \E j \in (k + 1)..Len(res.order) : res.map[res.order[j]].success
  THEN CHOOSE j \in (k + 1)..Len(res.order) :
         /\ res.map[res.order[j]].success
         /\ \A h \in (k + 1)..(j - 1) : ~res.map[res.order[h]].success
  ELSE 0

\* C8: when saveGeneratedContent returns or throws, the displayed outcomes,
\* the status and its message stay as they are and so do the outcomes of the
\* batch; the save of the next successful target of the batch is started
\* (one more save call, in flight), and after the last one the handler ends.
C8_SaveFailureIsLocal ==
  [][ \A saved \in BOOLEAN :
        SaveReturn(saved) =>
          /\ publishResults' = publishResults
          /\ publishStatus' = publishStatus
          /\ statusMessage' = statusMessage
          /\ pub'.results = pub.results
          /\ pub.results.map[pub.results.order[pub.k]].success
          /\ LET n == NextSuccessAfter(pub.results, pub.k) IN
             IF n # 0
             THEN /\ pub'.pc = "save"
                  /\ Len(saves') = Len(saves) + 1
                  /\ saves'[Len(saves')].platform = pub.results.order[n]
                  /\ saves'[Len(saves')].ret = "pending"
                  /\ isPublishing'
             ELSE /\ pub'.pc = "done"
                  /\ Len(saves') = Len(saves)
                  /\ ~isPublishing' ]_vars

\* the save of the first successful target threw, the save of another
\* successful target was made after it, and both outcomes are still success
C8_Witness ==
  /\ Len(saves) >= 2
  /\ saves[1].ret = "throw"
  /\ saves[2].platform # saves[1].platform
  /\ publishResults = pub.results
  /\ publishResults.map[saves[1].platform].success
  /\ publishResults.map[saves[2].platform].success
  /\ publishStatus = "success"

\* a target is eligible according to a credential cache
Eligible(t, creds) == \A c \in RequiredCredentials(t) : creds[c] # NoCred

\* C9: every selected target is eligible according to the credential cache.
C9_SelectionIsEligible ==
  \A k \in 1..Len(selectedPlatforms) : Eligible(selectedPlatforms[k], storedCredentials)

\* the place of a target in a selection (0 when it is not selected)
IndexOf(sel, t) ==
  IF \E k \in 1..Len(sel) : sel[k] = t THEN CHOOSE k \in 1..Len(sel) : sel[k] = t ELSE 0

\* the calls of the batch follow its selection: outcomes are recorded in the
\* order of the selection, only the last call can be in flight, a call in
\* flight is for the first target without an outcome, and the calls are in
\* the order of the selection
CallsFollowSelection ==
  /\ Len(pub.results.order) <= Len(pub.sel)
  /\ pub.results.order = SubSeq(pub.sel, 1, Len(pub.results.order))
  /\ \A n \in 1..Len(calls) :
       /\ IndexOf(pub.sel, calls[n].platformId) # 0
       /\ calls[n].ret = "pending" =>
            /\ n = Len(calls)
            /\ pub.pc = "call"
            /\ IndexOf(pub.sel, calls[n].platformId) = Len(pub.results.order) + 1
       /\ \A m \in 1..(n - 1) :
            /\ calls[m].ret # "pending"
            /\ IndexOf(pub.sel, calls[m].platformId) <= IndexOf(pub.sel, calls[n].platformId)

\* C10: a click on a card adds the target at the end of the selection or
\* removes it and keeps the order of the others; a batch takes the selection
\* of the click as it is; and in every state the calls of the batch follow
\* that selection: before any call for a target starts, every call for the
\* targets before it has returned and their outcomes are recorded.
C10_SelectionOrder ==
  [][ /\ \A p \in Targets :
           HandlePlatformToggle(p) =>
             IF \E k \in 1..Len(selectedPlatforms) : selectedPlatforms[k] = p
             THEN /\ Len(selectedPlatforms') = Len(selectedPlatforms) - 1
                  /\ \A j, k \in 1..Len(selectedPlatforms) :
                       (j < k /\ selectedPlatforms[j] # p /\ selectedPlatforms[k] # p) =>
                         /\ IndexOf(selectedPlatforms', selectedPlatforms[j]) # 0
                         /\ IndexOf(selectedPlatforms', selectedPlatforms[j])
                              < IndexOf(selectedPlatforms', selectedPlatforms[k])
             ELSE /\ Len(selectedPlatforms') = Len(selectedPlatforms) + 1
                  /\ selectedPlatforms'[Len(selectedPlatforms')] = p
                  /\ SubSeq(selectedPlatforms', 1, Len(selectedPlatforms)) = selectedPlatforms
      /\ StartsBatch => pub'.sel = selectedPlatforms
      /\ pub.pc \in {"call", "save"} => pub'.sel = pub.sel
      /\ CallsFollowSelection' ]_vars

\* the user selected instagram and then facebook; the instagram call has
\* returned and its outcome is recorded, and the facebook call is in flight
C10_Witness ==
  /\ pub.sel = <<"instagram", "facebook">>
  /\ selectedPlatforms = pub.sel
  /\ Len(calls) = 2
  /\ calls[1].platformId = "instagram"
  /\ calls[1].ret # "pending"
  /\ "instagram" \in Keys(pub.results)
  /\ calls[2].platformId = "facebook"
  /\ calls[2].ret = "pending"

\* the platform adapters
AdapterOps ==
  {"publishToFacebook", "createAutomaticFacebookAd", "publishToInstagram",
   "publishToLinkedIn"}

\* the adapter calls that have not returned
InFlight == {n \in 1..Len(calls) : calls[n].ret = "pending"}

\* C11: in every state at most one adapter call (publishToFacebook,
\* createAutomaticFacebookAd, publishToInstagram, publishToLinkedIn) is in
\* flight: it is the last one started, the handler is waiting for it, and
\* every call started before it has returned or thrown.
C11_OneCallInFlight ==
  /\ Cardinality(InFlight) <= 1
  /\ \A n \in 1..Len(calls) : calls[n].op \in AdapterOps
  /\ InFlight # {} <=> pub.pc = "call"
  /\ \A n \in InFlight : n = Len(calls) /\ calls[n].op = pub.op

\* the Facebook publish and the ad creation of facebook_ads have returned, and
\* the call for the next target is the only one in flight
C11_Witness ==
  /\ Len(calls) = 3
  /\ calls[1].op = "publishToFacebook"
  /\ calls[2].op = "createAutomaticFacebookAd"
  /\ calls[1].ret = "ok"
  /\ calls[2].ret # "pending"
  /\ calls[3].ret = "pending"
  /\ InFlight = {3}

\* a batch is running
Running == pub.pc \in {"call", "save"}

\* the batch has reported: every target of its selection has an outcome, and
\* the outcome map and the status computed from it are displayed
Reported ==
  /\ pub.pc \in {"save", "done"}
  /\ Keys(pub.results) = SelectedSet(pub.sel)
  /\ publishResults = pub.results
  /\ publishStatus = OverallStatus(SuccessCount(pub.results), TotalCount(pub.results)).status
  /\ statusMessage = OverallStatus(SuccessCount(pub.results), TotalCount(pub.results)).message

\* the handler has returned with every target processed and isPublishing false
Completed ==
  /\ pub.pc = "done"
  /\ Keys(pub.results) = SelectedSet(pub.sel)
  /\ ~isPublishing

\* C12: a started batch runs to completion, whatever the adapters and the
\* history store return: while it runs isPublishing is true and the only steps
\* that change it are the returns of its own calls (a click on a card, a
\* generation, a change of user or platform, a credential load leave the batch
\* as it is and no second batch starts), and, every call returning or
\* throwing, the batch eventually reports the outcome of every selected target
\* with the status, and eventually ends with isPublishing false.
C12_BatchRunsToCompletion ==
  /\ [](Running => isPublishing)
  /\ [][ Running => /\ pub'.pc \in {"call", "save", "done"}
                      /\ pub'.sel = pub.sel
                      /\ ~ExternalReturn => (pub' = pub /\ isPublishing' /\ calls' = calls
                                           /\ saves' = saves) ]_vars
  /\ (pub.pc = "call") ~> Reported
  /\ Running ~> Completed

\* the selection was changed after the batch was started, and the batch, still
\* running its saves, has reported the outcomes of the two targets of the click
C12_Witness ==
  /\ pub.pc = "save"
  /\ Reported
  /\ Len(pub.sel) = 2
  /\ selectedPlatforms # pub.sel
  /\ isPublishing

\* the targets of a batch one of whose required credentials the batch lacks
MissingCredential(b) ==
  {t \in SelectedSet(b.sel) : \E c \in RequiredCredentials(t) : b.creds[c] = NoCred}

\* C13: when the loop of a batch ends, every selected target whose credential
\* is missing is in the displayed outcome map with a failure outcome and is
\* counted in the attempted count of the status; a batch with such a target is
\* never reported as `all`; and when exactly one target lacks its credential
\* and all the others (at least one) succeeded, the batch is reported as
\* partial, with the others as successes out of all the selected targets.
C13_MissingCredentialIsAttempted ==
  [][ LoopEnds =>
        LET missing == MissingCredential(pub')
            others  == SelectedSet(pub'.sel) \ missing
            m       == statusMessage'
        IN /\ \A t \in missing : /\ t \in Keys(publishResults')
                                 /\ ~publishResults'.map[t].success
           /\ m.kind \in {"all", "partial"} => m.totalCount = Len(pub'.sel)
           /\ missing # {} => m.kind # "all"
           /\ ( /\ Cardinality(missing) = 1
                /\ others # {}
                /\ \A t \in others : publishResults'.map[t].success )
              => /\ m = Message("partial", Len(pub'.sel) - 1, Len(pub'.sel))
                 /\ publishStatus' = "success" ]_vars

\* of three selected targets one lacks its credential and the two others were
\* published: the status reads 2 out of 3
C13_Witness ==
  /\ pub.pc \in {"save", "done"}
  /\ Len(pub.sel) = 3
  /\ Cardinality(MissingCredential(pub)) = 1
  /\ \A t \in SelectedSet(pub.sel) \ MissingCredential(pub) : publishResults.map[t].success
  /\ \A t \in MissingCredential(pub) :
       publishResults.map[t] = Failure(CredentialsNotFoundMessage(t))
  /\ statusMessage = Message("partial", 2, 3)

\* the targets of an outcome object whose outcome is success, in its order
Successes(res) ==
  LET IsSuccess(t) == res.map[t].success IN SelectSeq(res.order, IsSuccess)

\* the adapter calls of the batch made for a target
CallsFor(t) == {n \in 1..Len(calls) : calls[n].platformId = t}

\* C14: a save is started only after every target of the batch has its
\* outcome and only with a user signed in at the click; the saves are made
\* for the targets whose outcome is success, in the order of the outcome map,
\* one each, and none for a failure; when the handler has ended every success
\* has its save; and each record carries the user, the target, the post id of
\* that target's outcome, and the text and the image of the batch, the ones
\* every adapter call for that target was given (LinkedIn takes no image).
C14_OneSavePerSuccess ==
  LET succ == Successes(pub.results) IN
  /\ saves # <<>> => /\ pub.pc \in {"save", "done"}
                     /\ Keys(pub.results) = SelectedSet(pub.sel)
                     /\ pub.user # NoUser
  /\ pub.pc # "idle" /\ pub.user = NoUser => saves = <<>>
  /\ Len(saves) <= Len(succ)
  /\ pub.pc = "save" => saves # <<>> /\ saves[Len(saves)].ret = "pending"
  /\ (pub.pc = "done" /\ pub.user # NoUser) => Len(saves) = Len(succ)
  /\ \A n \in 1..Len(saves) :
       /\ saves[n].platform = succ[n]
       /\ pub.results.map[saves[n].platform].success
       /\ saves[n].uid = pub.user
       /\ saves[n].postId = pub.results.map[saves[n].platform].postId
       /\ saves[n].generatedContent = pub.content
       /\ saves[n].generatedImageUrl = pub.image
       /\ CallsFor(saves[n].platform) # {}
       /\ \A c \in CallsFor(saves[n].platform) :
            /\ calls[c].text = saves[n].generatedContent
            /\ calls[c].image \in {saves[n].generatedImageUrl, NoImageArg}
            /\ calls[c].ret = "ok"
       /\ saves[n].ret = "pending" => n = Len(saves)

\* a batch of three targets has ended with two successes, among them
\* facebook_ads with its post id, and one failure: two saves were made
C14_Witness ==
  /\ pub.pc = "done"
  /\ Len(pub.sel) = 3
  /\ Len(Successes(pub.results)) = 2
  /\ Len(saves) = 2
  /\ \E n \in 1..2 : /\ saves[n].platform = "facebook_ads"
                     /\ saves[n].postId = PostIdFor("facebook_ads")
  /\ \E t \in Keys(pub.results) : ~pub.results.map[t].success

\* C15: a batch takes the credential cache of the click and keeps it: no step
\* changes the credentials of a running batch, and a credential load that
\* returns while the batch runs leaves the batch and its calls as they are;
\* every publish call of the batch was given the credential the cache of the
\* click holds for its target, and a processed target had an adapter called
\* iff that cache holds all its required credentials, whatever the cache
\* displayed now holds.
C15_CredentialsOfTheClick ==
  /\ [][ /\ StartsBatch => pub'.creds = storedCredentials
         /\ Running => pub'.creds = pub.creds
         /\ \A o \in LoadOutcomes :
              LoadReturn(o) => (pub' = pub /\ calls' = calls /\ saves' = saves) ]_vars
  /\ [](\A n \in 1..Len(calls) :
          /\ Eligible(calls[n].platformId, pub.creds)
          /\ calls[n].op # "createAutomaticFacebookAd" =>
               /\ calls[n].credential = PublishCredential(calls[n].platformId, pub.creds)
               /\ calls[n].credential # NoCred)
  /\ [](\A k \in 1..Len(pub.sel) :
          (pub.pc # "idle" /\ Processed(k)) =>
            /\ CallsFor(pub.sel[k]) # {} <=> Eligible(pub.sel[k], pub.creds)
            /\ (pub.results.map[pub.sel[k]] = Failure(CredentialsNotFoundMessage(pub.sel[k])))
                 <=> ~Eligible(pub.sel[k], pub.creds))

\* a load returned while the batch was running and delivered a cache without
\* the credential of the second target: the call for the second target is in
\* flight all the same, with the credential of the click
C15_Witness ==
  /\ pub.pc = "call"
  /\ pub.i = 2
  /\ pendingLoads = 0
  /\ storedCredentials # pub.creds
  /\ ~Eligible(pub.sel[2], storedCredentials)
  /\ calls[Len(calls)].platformId = pub.sel[2]
  /\ calls[Len(calls)].ret = "pending"
  /\ calls[Len(calls)].credential = PublishCredential(pub.sel[2], pub.creds)
  /\ calls[Len(calls)].credential # storedCredentials[pub.sel[2]]

\* the state cells other than the credential cache, and the running handlers
AllButCredentials ==
  <<currentUser, selectedPlatforms, generatedContent, generatedImage, isGenerating,
    isPublishing, publishStatus, statusMessage, publishResults, gen, genSeq, pub,
    calls, saves, returned>>

\* C16: when getCredentials throws, or returns without success or without
\* data, loadAllCredentials ends (its catch takes the error) with the
\* credential cache and every other state cell as they were; and the effect
\* run without a signed-in user (after a sign-out, or a platform change with
\* nobody signed in) starts no load and changes neither the cache nor any
\* other cell.
C16_FailedLoadChangesNothing ==
  [][ /\ \A o \in LoadOutcomes :
           (o.kind # "data" /\ LoadReturn(o)) =>
             /\ storedCredentials' = storedCredentials
             /\ AllButCredentials' = AllButCredentials
             /\ pendingLoads' = pendingLoads - 1
      /\ (currentUser' = NoUser /\ (PlatformChange \/ UserChange(NoUser))) =>
             /\ storedCredentials' = storedCredentials
             /\ pendingLoads' = pendingLoads
             /\ <<selectedPlatforms, generatedContent, generatedImage, isGenerating,
                   isPublishing, publishStatus, statusMessage, publishResults, gen,
                   genSeq, pub, calls, saves, returned>>'
                  = <<selectedPlatforms, generatedContent, generatedImage, isGenerating,
                      isPublishing, publishStatus, statusMessage, publishResults, gen,
                      genSeq, pub, calls, saves, returned>> ]_vars

\* the load of the first render has failed: nothing is in flight, the cache is
\* still the empty one and nothing else has happened
C16_Witness ==
  /\ currentUser # NoUser
  /\ events = 0
  /\ pendingLoads = 0
  /\ storedCredentials = EmptyCredentials
  /\ publishStatus = "idle"
  /\ statusMessage = NoMessage

\* a credential of the type is in the cache
Present(type) == storedCredentials[type] # NoCred

\* C17: in every state the enabled flag of each target is determined by the
\* credential cache alone: facebook iff a facebook credential is present,
\* instagram iff an instagram one, linkedin iff a linkedin one, facebook_ads
\* iff both a facebook and a facebook_ads credential are present; and a click
\* on a card changes the selection only for a target that is eligible so.
C17_EligibilityFromCache ==
  /\ [](/\ Enabled("facebook", storedCredentials) <=> Present("facebook")
        /\ Enabled("instagram", storedCredentials) <=> Present("instagram")
        /\ Enabled("linkedin", storedCredentials) <=> Present("linkedin")
        /\ Enabled("facebook_ads", storedCredentials)
             <=> (Present("facebook") /\ Present("facebook_ads")))
  /\ [][ \A p \in Targets :
           HandlePlatformToggle(p) => \A c \in RequiredCredentials(p) : Present(c) ]_vars

\* the cache holds a facebook_ads credential and no facebook credential:
\* facebook_ads is not eligible, and instagram, eligible, was selected
C17_Witness ==
  /\ Present("facebook_ads")
  /\ ~Present("facebook")
  /\ ~Enabled("facebook_ads", storedCredentials)
  /\ Enabled("instagram", storedCredentials)
  /\ selectedPlatforms = <<"instagram">>

\* a prompt that is empty or made of whitespace only
Blank(prompt) == \A k \in 1..Len(prompt) : prompt[k] = " "

\* C18: handleGenerate called with an empty or whitespace-only prompt returns
\* at its first line: no generation request is started (none is in flight
\* after the step that was not before, and the request counter stands), the
\* generated text and image stay, and isGenerating, publishStatus,
\* statusMessage and publishResults are unchanged; with any other prompt a
\* request is started.
C18_BlankPromptIsNoOp ==
  [][ \A prompt \in Prompts :
        HandleGenerate(prompt) =>
          IF Blank(prompt)
          THEN /\ gen' = gen
               /\ genSeq' = genSeq
               /\ generatedContent' = generatedContent
               /\ generatedImage' = generatedImage
               /\ isGenerating' = isGenerating
               /\ publishStatus' = publishStatus
               /\ statusMessage' = statusMessage
               /\ publishResults' = publishResults
               /\ returned' = "handleGenerate"
          ELSE /\ gen'.pc = "text"
               /\ genSeq' = genSeq + 1
               /\ isGenerating' ]_vars

\* the only thing done so far is a call of handleGenerate with a blank
\* prompt: nothing is generating and no status is shown
C18_Witness ==
  /\ returned = "handleGenerate"
  /\ events = 1
  /\ genSeq = 0
  /\ gen = IdleGen
  /\ ~isGenerating
  /\ generatedContent = NoArtifact
  /\ publishStatus = "idle"
  /\ statusMessage = NoMessage
  /\ publishResults = EmptyResults

\* C19: handleMultiPlatformPublish called with no generated text or with an
\* empty selection returns at its first line: no adapter call and no history
\* save is started, the handler's batch record stays, and isPublishing,
\* publishStatus, statusMessage and publishResults are unchanged; otherwise a
\* batch is started on the selection.
C19_NothingToPublishIsNoOp ==
  [][ HandleMultiPlatformPublish =>
        IF generatedContent = NoArtifact \/ selectedPlatforms = <<>>
        THEN /\ calls' = calls
             /\ saves' = saves
             /\ pub' = pub
             /\ isPublishing' = isPublishing
             /\ publishStatus' = publishStatus
             /\ statusMessage' = statusMessage
             /\ publishResults' = publishResults
             /\ returned' = "handleMultiPlatformPublish"
        ELSE /\ pub'.pc \in {"call", "save", "done"}
             /\ pub'.sel = selectedPlatforms
             /\ pub'.content = generatedContent ]_vars

\* there is generated text and nothing is selected, and
\* handleMultiPlatformPublish has returned at its first line: no batch was
\* ever started, nothing is publishing and no outcome is shown
C19_Witness ==
  /\ returned = "handleMultiPlatformPublish"
  /\ generatedContent # NoArtifact
  /\ selectedPlatforms = <<>>
  /\ events = 2
  /\ pub = IdlePub
  /\ calls = <<>>
  /\ saves = <<>>
  /\ ~isPublishing
  /\ publishResults = EmptyResults

\* the last call of the log after the step
LastCall == calls'[Len(calls')]

\* C20: createAutomaticFacebookAd is called in the step in which the
\* publishToFacebook call of the facebook_ads target returns, exactly when it
\* returns success with a post id, and with that post id and for that target;
\* when the publish fails, throws or returns no post id no ad creation is
\* called for the target, then or later (no call is ever started for a
\* target that has its outcome); when the ad creation throws no further call
\* is made for the target (nothing undoes the post); and in every state an
\* ad-creation call comes right after the successful publish call of
\* facebook_ads, and it is the only one.
C20_AdAfterPublishedPost ==
  /\ [][ /\ \A r \in AllReturns :
              (PublishReturn(r) /\ pub.sel[pub.i] = "facebook_ads") =>
                IF r.kind = "ok" /\ r.postId # NoPostId
                THEN /\ Len(calls') = Len(calls) + 1
                     /\ LastCall.op = "createAutomaticFacebookAd"
                     /\ LastCall.platformId = "facebook_ads"
                     /\ LastCall.postId = r.postId
                     /\ LastCall.ret = "pending"
                     /\ calls'[Len(calls)].ret = "ok"
                ELSE /\ "facebook_ads" \in Keys(pub'.results)
                     /\ ~pub'.results.map["facebook_ads"].success
                     /\ \A n \in 1..Len(calls') :
                          /\ calls'[n].op # "createAutomaticFacebookAd"
                          /\ n > Len(calls) => calls'[n].platformId # "facebook_ads"
         /\ \A r \in AllReturns :
              (PublishReturn(r) /\ pub.sel[pub.i] # "facebook_ads") =>
                \A n \in (Len(calls) + 1)..Len(calls') :
                  calls'[n].op # "createAutomaticFacebookAd"
         /\ \A created \in BOOLEAN :
              AdReturn(created) =>
                /\ pub.sel[pub.i] = "facebook_ads"
                /\ \A n \in (Len(calls) + 1)..Len(calls') :
                     calls'[n].platformId # "facebook_ads" /\ calls'[n].op \in AdapterOps
         /\ Running =>
              \A m \in (Len(calls) + 1)..Len(calls') :
                calls'[m].platformId \notin Keys(pub.results) ]_vars
  /\ [](\A n \in 1..Len(calls) :
          calls[n].op = "createAutomaticFacebookAd" =>
            /\ n > 1
            /\ calls[n - 1].op = "publishToFacebook"
            /\ calls[n - 1].platformId = "facebook_ads"
            /\ calls[n - 1].ret = "ok"
            /\ calls[n].platformId = "facebook_ads"
            /\ calls[n].postId # NoPostId
            /\ \A m \in 1..Len(calls) :
                 calls[m].op = "createAutomaticFacebookAd" => m = n)

\* the Facebook post of facebook_ads was published, its ad creation threw, and
\* the batch went on to the next target: the outcome is the failure, and the
\* only calls made for facebook_ads are those two
C20_Witness ==
  /\ Len(calls) = 3
  /\ calls[1].op = "publishToFacebook" /\ calls[1].ret = "ok"
  /\ calls[2].op = "createAutomaticFacebookAd" /\ calls[2].ret = "throw"
  /\ calls[2].postId = PostIdFor("facebook_ads")
  /\ calls[3].platformId # "facebook_ads"
  /\ pub.results.map["facebook_ads"] =
       Failure("Facebook post published but ad creation failed")

\* C21: one invocation of handleGenerate makes its calls one at a time and in
\* the order generatePostContent, generateImageDescription, generateImageUrl:
\* a call is started only by the click or by the successful return of the
\* call before it, for the same request; a call that throws ends the
\* invocation (no later call, no second try), as does the return of the
\* third call; no request is started while one is running; isGenerating is
\* true exactly while a call is awaited; and, every call returning or
\* throwing, isGenerating eventually returns to false.
C21_GenerationStepsInOrder ==
  /\ [](isGenerating <=> gen.pc # "idle")
  /\ [][ /\ (gen.pc = "idle" /\ gen' # gen) =>
                /\ \E prompt \in Prompts : ~Blank(prompt) /\ HandleGenerate(prompt)
                /\ gen'.pc = "text"
                /\ gen'.id = genSeq + 1
                /\ genSeq' = genSeq + 1
         /\ gen.pc # "idle" => genSeq' = genSeq
         /\ (gen.pc = "text" /\ gen' # gen) =>
                \/ GenTextReturn(TRUE) /\ gen' = [gen EXCEPT !.pc = "desc"]
                \/ GenTextReturn(FALSE) /\ gen' = IdleGen /\ ~isGenerating'
         /\ (gen.pc = "desc" /\ gen' # gen) =>
                \/ GenDescReturn(TRUE) /\ gen' = [gen EXCEPT !.pc = "image"]
                \/ GenDescReturn(FALSE) /\ gen' = IdleGen /\ ~isGenerating'
         /\ (gen.pc = "image" /\ gen' # gen) =>
                /\ GenImageReturn(TRUE) \/ GenImageReturn(FALSE)
                /\ gen' = IdleGen
                /\ ~isGenerating' ]_vars
  /\ isGenerating ~> ~isGenerating

\* the second request got its text and then failed at a later call: its
\* invocation has ended with the failure message and isGenerating false
C21_Witness ==
  /\ genSeq = 2
  /\ gen = IdleGen
  /\ ~isGenerating
  /\ generatedContent = 2
  /\ generatedImage = 1
  /\ statusMessage = GenerationFailedMessage
  /\ publishStatus = "error"

\* C22: at most one batch is in flight: isPublishing is true in exactly the
\* states in which the publish handler is waiting for an adapter call or for a
\* history save; the handler is not called while isPublishing is true, so a
\* batch starts only when none is running; a running batch keeps its
\* selection and artifact and only the returns of its own calls move it; and
\* a call or save in flight belongs to the one running batch.
C22_OneBatchInFlight ==
  /\ [](/\ isPublishing <=> Running
        /\ \A n \in InFlight : pub.pc = "call" /\ calls[n].platformId = pub.sel[pub.i]
        /\ \A n \in 1..Len(saves) :
             saves[n].ret = "pending" =>
               pub.pc = "save" /\ saves[n].platform = pub.results.order[pub.k])
  /\ [][ /\ isPublishing => ~HandleMultiPlatformPublish
         /\ StartsBatch => (~isPublishing /\ ~Running /\ InFlight = {})
         /\ Running => /\ pub'.pc \in {"call", "save", "done"}
                        /\ pub'.sel = pub.sel
                        /\ pub'.content = pub.content
                        /\ pub' # pub => ExternalReturn
         /\ (isPublishing /\ ~isPublishing') => (ExternalReturn /\ pub'.pc = "done")
         /\ (~isPublishing /\ isPublishing') => StartsBatch ]_vars

\* a second batch is running, started after the first one had ended: the
\* outcomes of the first are still displayed, those of the second are to come
C22_Witness ==
  /\ isPublishing
  /\ pub.pc = "call"
  /\ pub.results = EmptyResults
  /\ Keys(publishResults) # {}
  /\ Len(calls) = 1
  /\ calls[1].ret = "pending"
  /\ ~isGenerating
  /\ genSeq = 1

\* C23: whenever no generation and no batch is in flight and the displayed
\* outcome map is not empty, the displayed outcomes are those the last batch
\* reported, and that batch published the generated text that is displayed
\* now: the outcomes of the artifact before do not come back under a new one.
\* (Stated on the text of the artifact and on the outcome map.)
C23_OutcomesOfDisplayedArtifact ==
  (~isGenerating /\ ~isPublishing /\ Keys(publishResults) # {}) =>
    /\ pub.pc = "done"
    /\ publishResults = pub.results
    /\ pub.content = generatedContent

====
